---- MODULE Spec2Model ----
(***************************************************************************)
(* Model of src/gui.py: the BLE notification path of the EEG viewer.       *)
(*                                                                         *)
(*   BLEWorker.notification_handler  frame synchroniser over rx_buffer     *)
(*   BLEWorker.process_packet        sequence tracker, stats tick, decoder *)
(*   MainWindow.send_cmd             the 'b' / 's' / 'd' buttons           *)
(*   MainWindow.update_plot          the timer that drains data_queue      *)
(*   MainWindow.toggle_connection    the connect / disconnect button       *)
(*   BLEWorker.run / stop            the life of a worker                  *)
(*                                                                         *)
(* Bytes are integers 0..255, a bytearray is a sequence of bytes.  A float *)
(* is kept exact: a quotient is the pair [num, den], a scaled sample the   *)
(* pair [code, scale].  time.time() is the variable clock.                 *)
(***************************************************************************)
EXTENDS Integers, Sequences, FiniteSets

VARIABLES
    rx_buffer,    \* BLEWorker.rx_buffer
    last_seq,     \* BLEWorker.last_seq
    expected,     \* BLEWorker.expected
    received,     \* BLEWorker.received
    start_t,      \* BLEWorker.start_t
    data_queue,   \* MainWindow.data_queue, shared with the worker
    lbl_status,   \* text of MainWindow.lbl_status
    stats_calls,  \* the calls stats_cb(loss, fps) made so far, in order
    clock,        \* the reading time.time() returns
    stream,       \* history: every byte handed to notification_handler
    emitted,      \* history: every packet handed to process_packet
    dropped,      \* history: number of bytes removed by rx_buffer.pop(0)
    nobs,         \* history: number of process_packet calls
    ncalls,       \* history: number of notification_handler calls
    ncmds,        \* history: number of send_cmd calls
    gapfree,      \* history: every packet so far carried the successor of
                  \*          the sequence number before it, and no 'b' came
    marks,        \* history: for each byte of rx_buffer, whether the device
                  \*          sent it as byte 0 of a frame
    cut,          \* history: whether the packets the last call cut all
                  \*          start at byte 0 of a frame ("aligned"), or some
                  \*          do not ("misaligned"), or it cut none ("none")
    last_clean,   \* history: the last frame sent had the marker value at
                  \*          byte 0 only
    nglitch,      \* history: number of damaged deliveries
    controls,     \* whether the three command buttons are enabled
    btn_connect,  \* text of MainWindow.btn_connect
    plot_buffer,  \* MainWindow.plot_buffer: the columns that are not zero
    plot_error,   \* history: update_plot raised at line 254
    workers,      \* every BLEWorker built so far: where its run() stands,
                  \*          is_running, client, the link, and as history
                  \*          the statuses it reported and whether stop()
                  \*          was called on it
    parked,       \* rx_buffer, last_seq, expected, received and start_t of
                  \*          the workers self.ble_worker no longer refers to
    ble_worker,   \* MainWindow.ble_worker: 0 is None, else an index of workers
    pending,      \* the send_command tasks scheduled and not yet run
    writes,       \* history: the outcome of every send_command
    pushed,       \* history: the vectors appended to data_queue since the
                  \*          last update_plot
    drained,      \* history: the vectors update_plot took, in order
    stale,        \* history: number of bytes at the front of rx_buffer that
                  \*          arrived before the last 'b' command
    mixed         \* history: a packet was cut that holds such bytes

\* the program's variables
prog == <<rx_buffer, last_seq, expected, received, start_t, data_queue,
          lbl_status, stats_calls, clock>>

counters == <<nobs, ncalls, ncmds, gapfree>>

syncHist == <<stream, emitted, dropped>>

resyncHist == <<marks, cut, last_clean, nglitch>>

\* the buttons
ui == <<controls, btn_connect>>

plot == <<plot_buffer, plot_error>>

life == <<workers, parked, ble_worker>>

sinkHist == <<pushed, drained>>

sessHist == <<stale, mixed, writes>>

\* what the actions of the data path alone leave as it is
rest == <<plot, life, sinkHist, sessHist>>

vars == <<prog, counters, syncHist, resyncHist, ui, pending, rest>>

----------------------------------------------------------------------------
(* Program constants *)

\* the marker byte 0xA0 tested by notification_handler
SENTINEL == 160

\* the frame length used by notification_handler
FRAME_SIZE == 52

\* process_packet reports stats when received is a multiple of this
STATS_WINDOW == 50

\* capacity of the deque behind data_queue
QUEUE_MAXLEN == 2500

\* SCALE_FACTOR = (4.5 / 8388607 / 24.0) * 1000000 = 187500 / 8388607
SCALE_FACTOR == [num |-> 187500, den |-> 8388607]

\* the value of last_seq before the first packet
NO_SEQ == -1

----------------------------------------------------------------------------
(* Python sequence operations used by the code *)

Min(a, b) == IF a <= b THEN a ELSE b

\* buf[:n]
Take(buf, n) == SubSeq(buf, 1, Min(n, Len(buf)))

\* the buffer after del buf[:n]
DropFront(buf, n) == SubSeq(buf, Min(n, Len(buf)) + 1, Len(buf))

\* n copies of byte b
Run(b, n) == [i \in 1..n |-> b]

\* data_queue.appendleft(v) in place of append(v)
DequeAppendLeft(q, v) ==
    IF Len(q) >= QUEUE_MAXLEN THEN <<v>> \o SubSeq(q, 1, Len(q) - 1)
                              ELSE <<v>> \o q

\* deque(maxlen = QUEUE_MAXLEN).append(v): the oldest entry falls out when full
DequeAppend(q, v) ==
    IF Len(q) >= QUEUE_MAXLEN THEN Append(Tail(q), v) ELSE Append(q, v)

----------------------------------------------------------------------------
(* BLEWorker.notification_handler, lines 80-88: the frame synchroniser *)

\* a handler that forgets what it had buffered: rx_buffer = bytearray(data)
ExtendReplace(buf, data) == data

\* self.rx_buffer.extend(data)
Extend(buf, data) == buf \o data

\* a loop that stops one byte early: len(self.rx_buffer) > 52
HasFrameStrict(buf) == Len(buf) > FRAME_SIZE

\* the loop condition: len(self.rx_buffer) >= 52
HasFrame(buf) == Len(buf) >= FRAME_SIZE

\* a loop without the marker test
AnyByte(b) == TRUE

\* the marker test on self.rx_buffer[0]
IsSentinel(b) == b = SENTINEL

\* a slide of a whole block on a wrong marker: del self.rx_buffer[:52]
PopBlock(buf) == DropFront(buf, FRAME_SIZE)

\* a slide of two bytes: del self.rx_buffer[:2]
PopTwo(buf) == DropFront(buf, 2)

\* self.rx_buffer.pop(0)
PopFront(buf) == Tail(buf)

\* The while loop on buffer buf.  at counts the bytes already removed from the
\* buffer the call started with, out collects the packets handed to
\* process_packet, each with the offset it was cut at and the buffer length at
\* that moment, ndrop counts the pop(0) calls.
RECURSIVE IngestLoop(_, _, _, _)
IngestLoop(buf, at, out, ndrop) ==
    IF HasFrame(buf)
    THEN IF ~IsSentinel(buf[1])
         THEN IngestLoop(PopFront(buf), at + 1, out, ndrop + 1)
         ELSE IngestLoop(DropFront(buf, FRAME_SIZE), at + FRAME_SIZE,
                         Append(out, [packet |-> Take(buf, FRAME_SIZE),
                                      at |-> at, avail |-> Len(buf)]),
                         ndrop)
    ELSE [buf |-> buf, out |-> out, ndrop |-> ndrop]

Ingest(buf) == IngestLoop(buf, 0, <<>>, 0)

----------------------------------------------------------------------------
(* BLEWorker.process_packet, lines 90-117 *)

\* data[i], Python's 0-based index
At(data, i) == data[i + 1]

\* (a) & 0xFF of a Python int, negative ones included
And0xFF(a) == a % 256

\* a difference without the mask: diff = seq - self.last_seq
SeqDiffRaw(seq, last) == seq - last

\* diff = (seq - self.last_seq) & 0xFF
SeqDiff(seq, last) == And0xFF(seq - last)

\* a tick one packet early: (self.received + 1) % 50 == 0
TickDueEarly(rcv) == (rcv + 1) % STATS_WINDOW = 0

\* the tick condition: self.received % 50 == 0
TickDue(rcv) == rcv % STATS_WINDOW = 0

\* a loss without the guard: a quotient with denominator 0 is the
\* ZeroDivisionError
LossUnguarded(exp, rcv) == [num |-> (exp - rcv) * 100, den |-> exp]

\* loss = ((expected - received) / expected) * 100 if expected > 0 else 0
Loss(exp, rcv) ==
    IF exp > 0 THEN [num |-> (exp - rcv) * 100, den |-> exp]
               ELSE [num |-> 0, den |-> 1]

\* fps = (received * 2) / elapsed if elapsed > 0 else 0
Fps(rcv, elapsed) ==
    IF elapsed > 0 THEN [num |-> rcv * 2, den |-> elapsed]
                   ELSE [num |-> 0, den |-> 1]

\* a decoder without the sign extension
Code24Unsigned(b0, b1, b2) == b0 * 65536 + b1 * 256 + b2

\* val = (data[idx] << 16) | (data[idx+1] << 8) | data[idx+2]
\* if val & 0x800000: val -= 0x1000000
Code24(b0, b1, b2) ==
    LET val == b0 * 65536 + b1 * 256 + b2
    IN  IF (val \div 8388608) % 2 = 1 THEN val - 16777216 ELSE val

\* val * SCALE_FACTOR
Scaled(val) == [code |-> val, scale |-> SCALE_FACTOR]

\* the inner loops: the eight samples of the sub-frame at offset
DecodeSet(data, offset) ==
    [i \in 1..8 |->
        LET idx == offset + (i - 1) * 3
        IN  Scaled(Code24(At(data, idx), At(data, idx + 1), At(data, idx + 2)))]

\* The state process_packet works on, as a record.
Worker ==
    [last_seq |-> last_seq, expected |-> expected, received |-> received,
     start_t |-> start_t, data_queue |-> data_queue,
     stats_calls |-> stats_calls]

\* a process_packet that appends frames[1] before frames[0]
ProcessPacketSwapped(s, data, now) ==
    LET seq  == At(data, 1)
        seen == s.last_seq # NO_SEQ
        exp  == IF seen THEN s.expected + SeqDiff(seq, s.last_seq)
                        ELSE s.expected
        rcv  == IF seen THEN s.received + 1 ELSE s.received
        tick == TickDue(rcv)
        st   == IF tick /\ s.start_t = 0 THEN now ELSE s.start_t
        call == [loss |-> Loss(exp, rcv), fps |-> Fps(rcv, now - st),
                 expected |-> exp, received |-> rcv]
    IN  [last_seq    |-> seq,
         expected    |-> exp,
         received    |-> rcv,
         start_t     |-> st,
         stats_calls |-> IF tick THEN Append(s.stats_calls, call)
                                 ELSE s.stats_calls,
         data_queue  |-> DequeAppend(DequeAppend(s.data_queue,
                                                 DecodeSet(data, 26)),
                                     DecodeSet(data, 2))]

\* One call process_packet(data) in state s, with time.time() reading now.
ProcessPacket(s, data, now) ==
    LET seq  == At(data, 1)
        seen == s.last_seq # NO_SEQ
        exp  == IF seen THEN s.expected + SeqDiff(seq, s.last_seq)
                        ELSE s.expected
        rcv  == IF seen THEN s.received + 1 ELSE s.received
        tick == TickDue(rcv)
        st   == IF tick /\ s.start_t = 0 THEN now ELSE s.start_t
        call == [loss |-> Loss(exp, rcv), fps |-> Fps(rcv, now - st),
                 expected |-> exp, received |-> rcv]
    IN  [last_seq    |-> seq,
         expected    |-> exp,
         received    |-> rcv,
         start_t     |-> st,
         stats_calls |-> IF tick THEN Append(s.stats_calls, call)
                                 ELSE s.stats_calls,
         data_queue  |-> DequeAppend(DequeAppend(s.data_queue,
                                                 DecodeSet(data, 2)),
                                     DecodeSet(data, 26))]

\* the calls self.process_packet(packet) of one notification, in order
RECURSIVE ProcessAll(_, _, _)
ProcessAll(s, out, now) ==
    IF out = <<>> THEN s
    ELSE ProcessAll(ProcessPacket(s, Head(out).packet, now), Tail(out), now)

\* notification_handler(sender, data).  process_packet never touches
\* rx_buffer, so the loop is run first and its packets are processed after it,
\* in the order the loop cut them.
NotificationHandler(data) ==
    LET r == Ingest(Extend(rx_buffer, data))
        s == ProcessAll(Worker, r.out, clock)
    IN  /\ rx_buffer' = r.buf
        /\ last_seq' = s.last_seq
        /\ expected' = s.expected
        /\ received' = s.received
        /\ start_t' = s.start_t
        /\ data_queue' = s.data_queue
        /\ stats_calls' = s.stats_calls
        /\ UNCHANGED <<lbl_status, clock, ui, pending>>

\* history of the calls: how many, how many packets, and whether the packets
\* came with consecutive sequence numbers
CallHistory(data) ==
    LET r       == Ingest(Extend(rx_buffer, data))
        seqs    == [i \in 1..Len(r.out) |-> At(r.out[i].packet, 1)]
        prev(i) == IF i = 1 THEN last_seq ELSE seqs[i - 1]
    IN  /\ nobs' = nobs + Len(r.out)
        /\ ncalls' = ncalls + 1
        /\ gapfree' = (gapfree /\ \A i \in 1..Len(r.out) :
                          \/ prev(i) = NO_SEQ
                          \/ seqs[i] = (prev(i) + 1) % 256)
        /\ UNCHANGED ncmds

\* history of the synchroniser: the bytes received, the packets cut (with
\* their position in the stream) and the bytes thrown away
SyncHistory(data) ==
    LET r    == Ingest(Extend(rx_buffer, data))
        base == Len(stream) - Len(rx_buffer)
    IN  /\ stream' = stream \o data
        /\ emitted' = emitted \o
              [i \in 1..Len(r.out) |->
                  [packet |-> r.out[i].packet, pos |-> base + r.out[i].at,
                   avail |-> r.out[i].avail]]
        /\ dropped' = dropped + r.ndrop

----------------------------------------------------------------------------
(* MainWindow.send_cmd, lines 219-229 *)

Commands == {"b", "s", "d"}

\* the text update_status puts on lbl_status for each command
StatusOf(char) ==
    CASE char = "b" -> "streaming"
      [] char = "s" -> "idle"
      [] char = "d" -> "sleep"

\* the statuses for which update_status enables the command buttons
Enabling == {"connected", "streaming", "sleep"}

\* update_status(text, color)
UpdateStatus(text) ==
    /\ lbl_status' = text
    /\ controls' = (controls \/ text \in Enabling)

\* a send_cmd whose idle and sleep commands empty the queue and the buffer:
\* self.data_queue.clear(); self.ble_worker.rx_buffer.clear()
SendCmdClearing(char) ==
    /\ pending' = Append(pending, [worker |-> ble_worker, char |-> char])
    /\ UpdateStatus(StatusOf(char))
    /\ IF char = "b"
       THEN /\ start_t' = clock
            /\ received' = 0
            /\ UNCHANGED <<rx_buffer, data_queue>>
       ELSE /\ rx_buffer' = <<>>
            /\ data_queue' = <<>>
            /\ UNCHANGED <<start_t, received>>
    /\ UNCHANGED <<last_seq, expected, stats_calls, clock, btn_connect>>

\* send_cmd(char) with self.ble_worker set.  The write is scheduled as a task
\* (send_command), which changes nothing of the worker.
SendCmd(char) ==
    /\ pending' = Append(pending, [worker |-> ble_worker, char |-> char])
    /\ UpdateStatus(StatusOf(char))
    /\ IF char = "b"
       THEN /\ start_t' = clock
            /\ received' = 0
       ELSE UNCHANGED <<start_t, received>>
    /\ UNCHANGED <<rx_buffer, last_seq, expected, data_queue, stats_calls,
                   clock, btn_connect>>

\* history of the commands
CmdHistory(char) ==
    /\ ncmds' = ncmds + 1
    /\ gapfree' = (gapfree /\ char # "b")
    /\ UNCHANGED <<nobs, ncalls>>

\* the largest clock reading of a run
MaxClock == 2

\* time passes: the next time.time() reading is later
Advance ==
    /\ clock < MaxClock
    /\ clock' = clock + 1
    /\ UNCHANGED <<rx_buffer, last_seq, expected, received, start_t,
                   data_queue, lbl_status, stats_calls, counters, ui, pending>>

----------------------------------------------------------------------------
(* MainWindow.update_plot, lines 245-256: the timer that empties data_queue *)

\* the width of plot_buffer = np.zeros((8, 1250))
PLOT_WIDTH == 1250

\* a column of np.zeros
ZeroColumn == [i \in 1..8 |-> Scaled(0)]

\* np.roll(pb, -n, axis = 1) on the columns of pb that are not zero: column j
\* of the result is column ((j + n) mod 1250) of pb, counted from 0
Roll(pb, n) ==
    LET src(j) == ((j - 1 + n) % PLOT_WIDTH) + 1
        dst(i) == ((i - 1 - n) % PLOT_WIDTH) + 1
    IN  [j \in {dst(i) : i \in DOMAIN pb} |-> pb[src(j)]]

\* self.plot_buffer[:, -n:] = arr.T for n <= 1250 columns
SetLast(pb, data) ==
    LET n     == Len(data)
        first == PLOT_WIDTH - n
        kept  == {j \in DOMAIN pb : j <= first}
        set   == {j \in (first + 1)..PLOT_WIDTH : data[j - first] # ZeroColumn}
    IN  [j \in kept \cup set |-> IF j > first THEN data[j - first] ELSE pb[j]]

\* an update_plot that takes one vector at a time: a single popleft()
UpdatePlotOne ==
    LET data == Take(data_queue, 1)
        n    == Len(data)
    IN  /\ data_queue' = DropFront(data_queue, 1)
        /\ IF n = 0
           THEN UNCHANGED plot
           ELSE /\ plot_buffer' = SetLast(Roll(plot_buffer, n), data)
                /\ UNCHANGED plot_error
        /\ UNCHANGED <<rx_buffer, last_seq, expected, received, start_t,
                       lbl_status, stats_calls, clock, ui, pending>>

\* update_plot().  The popleft loop takes everything; with nothing taken it
\* returns.  With more than 1250 vectors the slice [:, -n:] is the whole
\* buffer and the assignment of the (8, n) array raises ValueError, after
\* the roll was stored.
UpdatePlot ==
    LET data == data_queue
        n    == Len(data)
    IN  /\ data_queue' = <<>>
        /\ IF n = 0
           THEN UNCHANGED plot
           ELSE IF n > PLOT_WIDTH
                THEN /\ plot_buffer' = Roll(plot_buffer, n)
                     /\ plot_error' = TRUE
                ELSE /\ plot_buffer' = SetLast(Roll(plot_buffer, n), data)
                     /\ UNCHANGED plot_error
        /\ UNCHANGED <<rx_buffer, last_seq, expected, received, start_t,
                       lbl_status, stats_calls, clock, ui, pending>>

\* history of the sink at a drain
DrainHistory ==
    /\ drained' = drained \o data_queue
    /\ pushed' = <<>>

\* the vectors process_packet appends for the packets out, in order
Vectors(out) ==
    [k \in 1..(2 * Len(out)) |->
        DecodeSet(out[(k + 1) \div 2].packet, IF k % 2 = 1 THEN 2 ELSE 26)]

\* history of the sink at a notification
PushHistory(data) ==
    /\ pushed' = pushed \o Vectors(Ingest(Extend(rx_buffer, data)).out)
    /\ UNCHANGED drained

----------------------------------------------------------------------------
(* BLEWorker.run, lines 43-69, BLEWorker.stop, lines 119-120, and           *)
(* MainWindow.toggle_connection, lines 207-217.  run() is a coroutine: it   *)
(* gives way at each await, and the field pc of a worker names the await it *)
(* stands at:                                                               *)
(*   "scheduled"    ensure_future(run()) was called, run() has not started  *)
(*   "scanning"     await BleakScanner.find_device_by_filter, line 46       *)
(*   "connecting"   entering async with BleakClient(device), line 54        *)
(*   "subscribing"  await client.start_notify, line 56                      *)
(*   "sleeping"     await asyncio.sleep(0.1), line 62                       *)
(*   "closing"      leaving the async with block: the client disconnects    *)
(*   "done"         run() has returned                                      *)
(* link is client.is_connected, failed tells that the block is being left   *)
(* by an exception.                                                         *)

\* the fields __init__ gives a worker
FreshFields ==
    [rx_buffer |-> <<>>, last_seq |-> NO_SEQ, expected |-> 0, received |-> 0,
     start_t |-> 0]

\* BLEWorker(...) as toggle_connection schedules it
FreshWorker ==
    [pc |-> "scheduled", is_running |-> FALSE, client |-> FALSE,
     link |-> FALSE, failed |-> FALSE, stop_called |-> FALSE,
     statuses |-> <<>>]

\* the fields of the worker self.ble_worker refers to
CurrentFields ==
    [rx_buffer |-> rx_buffer, last_seq |-> last_seq, expected |-> expected,
     received |-> received, start_t |-> start_t]

\* run() has started and has not returned
Active(w) == workers[w].pc \notin {"scheduled", "done"}

\* the calls self.status_cb(text, color) of one step of worker w, in order
Report(w, wr, texts) ==
    /\ workers' = [workers EXCEPT
                      ![w] = [wr EXCEPT !.statuses = @ \o texts]]
    /\ lbl_status' = texts[Len(texts)]
    /\ controls' = (controls \/ \E i \in 1..Len(texts) : texts[i] \in Enabling)

\* a finally block that reports and leaves the fields as they are
FinallyStatusOnly(wr) == [wr EXCEPT !.pc = "done"]

\* the finally block, lines 66-69, before its status_cb call
Finally(wr) ==
    [wr EXCEPT !.pc = "done", !.is_running = FALSE, !.client = FALSE]

\* what no step of run() touches
RunFrame ==
    UNCHANGED <<rx_buffer, last_seq, expected, received, start_t, data_queue,
                stats_calls, clock, btn_connect, plot, parked, ble_worker,
                pending>>

\* run() starts: line 44
Start(w) ==
    /\ workers[w].pc = "scheduled"
    /\ Report(w, [workers[w] EXCEPT !.pc = "scanning"], <<"scanning">>)
    /\ RunFrame

\* the scan returns a device, returns None, or raises: lines 46-53
ScanDone(w, outcome) ==
    /\ workers[w].pc = "scanning"
    /\ CASE outcome = "found" ->
              Report(w, [workers[w] EXCEPT !.pc = "connecting"],
                     <<"connecting">>)
         [] outcome = "none" ->
              Report(w, Finally(workers[w]), <<"not found", "disconnected">>)
         [] outcome = "raised" ->
              Report(w, Finally(workers[w]), <<"error", "disconnected">>)
    /\ RunFrame

\* the client connects, or raises: lines 54-55
ConnectDone(w, ok) ==
    /\ workers[w].pc = "connecting"
    /\ IF ok
       THEN /\ workers' = [workers EXCEPT ![w].pc = "subscribing",
                                          ![w].client = TRUE,
                                          ![w].link = TRUE]
            /\ UNCHANGED <<lbl_status, controls>>
       ELSE Report(w, Finally(workers[w]), <<"error", "disconnected">>)
    /\ RunFrame

\* start_notify returns, or raises: lines 56-61.  After it the loop condition
\* is tested for the first time.
SubscribeDone(w, ok) ==
    /\ workers[w].pc = "subscribing"
    /\ IF ok
       THEN Report(w, [workers[w] EXCEPT
                          !.is_running = TRUE,
                          !.pc = IF workers[w].link THEN "sleeping"
                                                    ELSE "closing"],
                   <<"connected">>)
       ELSE /\ workers' = [workers EXCEPT ![w].pc = "closing",
                                          ![w].failed = TRUE]
            /\ UNCHANGED <<lbl_status, controls>>
    /\ RunFrame

\* a loop that tests the link only: while client.is_connected
WakeLinkOnly(w) ==
    /\ workers[w].pc = "sleeping"
    /\ IF workers[w].link
       THEN UNCHANGED workers
       ELSE workers' = [workers EXCEPT ![w].pc = "closing"]
    /\ UNCHANGED <<lbl_status, controls>>
    /\ RunFrame

\* the sleep of line 62 ends and the loop condition of line 61 is tested
Wake(w) ==
    /\ workers[w].pc = "sleeping"
    /\ IF workers[w].is_running /\ workers[w].link
       THEN UNCHANGED workers
       ELSE workers' = [workers EXCEPT ![w].pc = "closing"]
    /\ UNCHANGED <<lbl_status, controls>>
    /\ RunFrame

\* the client has disconnected, cleanly or not; then lines 64-69
CloseDone(w, ok) ==
    /\ workers[w].pc = "closing"
    /\ Report(w, [Finally(workers[w]) EXCEPT !.link = FALSE],
              IF workers[w].failed \/ ~ok
              THEN <<"error", "disconnected">> ELSE <<"disconnected">>)
    /\ RunFrame

\* the link drops: client.is_connected turns False
LinkDrop(w) ==
    /\ workers[w].pc \in {"subscribing", "sleeping"}
    /\ workers[w].link
    /\ workers' = [workers EXCEPT ![w].link = FALSE]
    /\ UNCHANGED <<lbl_status, controls>>
    /\ RunFrame

\* toggle_connection(): stop() and enable_controls(False) on a running
\* worker, else a new worker in self.ble_worker and its run() scheduled
ToggleConnection ==
    IF ble_worker # 0 /\ workers[ble_worker].is_running
    THEN /\ workers' = [workers EXCEPT ![ble_worker].is_running = FALSE,
                                       ![ble_worker].stop_called = TRUE]
         /\ btn_connect' = "connect"
         /\ controls' = FALSE
         /\ UNCHANGED <<rx_buffer, last_seq, expected, received, start_t,
                        parked, ble_worker>>
    ELSE /\ workers' = Append(workers, FreshWorker)
         /\ ble_worker' = Len(workers) + 1
         /\ parked' = Append([w \in 1..Len(parked) |->
                                 IF w = ble_worker THEN CurrentFields
                                                   ELSE parked[w]],
                             FreshFields)
         /\ rx_buffer' = FreshFields.rx_buffer
         /\ last_seq' = FreshFields.last_seq
         /\ expected' = FreshFields.expected
         /\ received' = FreshFields.received
         /\ start_t' = FreshFields.start_t
         /\ btn_connect' = "disconnect"
         /\ UNCHANGED controls

\* what toggle_connection never touches
ToggleFrame ==
    UNCHANGED <<data_queue, lbl_status, stats_calls, clock, plot, pending>>

\* notification_handler of a worker self.ble_worker no longer refers to: the
\* same code on the fields of that worker and on the shared data_queue
ParkedHandler(w, data) ==
    LET f == parked[w]
        r == Ingest(Extend(f.rx_buffer, data))
        s == ProcessAll([last_seq |-> f.last_seq, expected |-> f.expected,
                         received |-> f.received, start_t |-> f.start_t,
                         data_queue |-> data_queue,
                         stats_calls |-> stats_calls], r.out, clock)
    IN  /\ parked' = [parked EXCEPT
                         ![w] = [rx_buffer |-> r.buf,
                                 last_seq |-> s.last_seq,
                                 expected |-> s.expected,
                                 received |-> s.received,
                                 start_t |-> s.start_t]]
        /\ data_queue' = s.data_queue
        /\ stats_calls' = s.stats_calls
        /\ UNCHANGED <<rx_buffer, last_seq, expected, received, start_t,
                       lbl_status, clock, ui, pending>>

\* the transport calls notification_handler of worker w, which is subscribed
WorkerNotified(w, data) ==
    /\ workers[w].pc \in {"sleeping", "closing"}
    /\ workers[w].link
    /\ IF w = ble_worker
       THEN NotificationHandler(data) /\ UNCHANGED parked
       ELSE ParkedHandler(w, data)
    /\ UNCHANGED <<workers, ble_worker, plot>>

\* the vectors a notification of worker w appends
WorkerPushHistory(w, data) ==
    LET buf == IF w = ble_worker THEN rx_buffer ELSE parked[w].rx_buffer
    IN  /\ pushed' = pushed \o Vectors(Ingest(Extend(buf, data)).out)
        /\ UNCHANGED drained

\* send_command(cmd_char), lines 71-78, run as the task send_cmd scheduled:
\* the write goes out, or raises and is printed, or there is no connected
\* client
SendCommand(outcome) ==
    /\ pending # <<>>
    /\ LET task == Head(pending)
           wr   == workers[task.worker]
       IN  /\ IF wr.client /\ wr.link
              THEN outcome \in {"written", "raised"}
              ELSE outcome = "refused"
           /\ writes' = Append(writes, [worker |-> task.worker,
                                        char |-> task.char,
                                        outcome |-> outcome])
    /\ pending' = Tail(pending)
    /\ UNCHANGED <<prog, ui, plot, life>>

----------------------------------------------------------------------------
(* Initial state: a BLEWorker just built by toggle_connection (lines 31-41), *)
(* connected, over the empty data_queue of MainWindow.__init__ (line 129).  *)

\* a worker whose run() has reached the sleep of line 62
ConnectedWorker ==
    [pc |-> "sleeping", is_running |-> TRUE, client |-> TRUE, link |-> TRUE,
     failed |-> FALSE, stop_called |-> FALSE,
     statuses |-> <<"scanning", "connecting", "connected">>]

Init ==
    /\ rx_buffer = <<>>
    /\ last_seq = NO_SEQ
    /\ expected = 0
    /\ received = 0
    /\ start_t = 0
    /\ data_queue = <<>>
    /\ lbl_status = "connected"
    /\ stats_calls = <<>>
    /\ clock = 1
    /\ stream = <<>>
    /\ emitted = <<>>
    /\ dropped = 0
    /\ nobs = 0
    /\ ncalls = 0
    /\ ncmds = 0
    /\ gapfree = TRUE
    /\ marks = <<>>
    /\ cut = "none"
    /\ last_clean = FALSE
    /\ nglitch = 0
    /\ controls = TRUE
    /\ btn_connect = "disconnect"
    /\ plot_buffer = <<>>
    /\ plot_error = FALSE
    /\ workers = <<ConnectedWorker>>
    /\ parked = <<FreshFields>>
    /\ ble_worker = 1
    /\ pending = <<>>
    /\ writes = <<>>
    /\ pushed = <<>>
    /\ drained = <<>>
    /\ stale = 0
    /\ mixed = FALSE

----------------------------------------------------------------------------
(* Spec: the synchroniser fed byte chunks of any size *)

\* number of notifications in a run
MaxCalls == 4

\* number of bytes received in a run: two frames and a few bytes
MaxStream == 110

\* the bytes a chunk is made of: the marker and one other value
ChunkBytes == {SENTINEL, 0}

\* the chunk lengths: one or two bytes, and ones that nearly or exactly fill a
\* frame
ChunkLens == {1, 2, FRAME_SIZE - 1, FRAME_SIZE}

Chunks == {Run(b, n) : b \in ChunkBytes, n \in ChunkLens}

Notify(data) ==
    /\ ncalls < MaxCalls
    /\ Len(stream) + Len(data) <= MaxStream
    /\ NotificationHandler(data)
    /\ CallHistory(data)
    /\ SyncHistory(data)
    /\ UNCHANGED <<resyncHist, rest>>

Tick ==
    /\ Advance
    /\ UNCHANGED <<syncHist, resyncHist, rest>>

Next ==
    \/ \E data \in Chunks : Notify(data)
    \/ Tick

Spec == Init /\ [][Next]_vars

----------------------------------------------------------------------------
(* SpecStats: the tracker fed whole frames, one per notification, with the  *)
(* command buttons pressed in between                                       *)

\* number of frames in a run: enough for the tick at received = 50
MaxFrames == 52

\* number of button presses in a run
MaxCmds == 1

\* a button is pressed only while at most this many frames have arrived
PressBy == 2

\* the sequence number of the first frame of a run: the wraparound is near
FirstSeqs == {254}

\* how far the next sequence number is from the last one: a repeat, the
\* successor, one frame lost
Gaps == {0, 1, 2}

\* a well-formed frame: marker, sequence number, 50 payload bytes
FrameOf(seq, fill) == <<SENTINEL, seq>> \o Run(fill, FRAME_SIZE - 2)

NextSeqs ==
    IF last_seq = NO_SEQ THEN FirstSeqs
    ELSE {(last_seq + d) % 256 : d \in Gaps}

Deliver(seq) ==
    /\ nobs < MaxFrames
    /\ rx_buffer = <<>>
    /\ NotificationHandler(FrameOf(seq, 0))
    /\ CallHistory(FrameOf(seq, 0))
    /\ UNCHANGED <<syncHist, resyncHist, rest>>

Press(char) ==
    /\ ncmds < MaxCmds
    /\ nobs <= PressBy
    /\ SendCmd(char)
    /\ CmdHistory(char)
    /\ UNCHANGED <<syncHist, resyncHist, rest>>

NextStats ==
    \/ \E seq \in NextSeqs : Deliver(seq)
    \/ \E char \in Commands : Press(char)

SpecStats == Init /\ [][NextStats]_vars

----------------------------------------------------------------------------
(* SpecResync: the synchroniser alone, on a stream of whole frames that     *)
(* never ends and is damaged a few times.  The packets are cut as           *)
(* notification_handler cuts them but are not passed on to process_packet,  *)
(* which never touches rx_buffer: the counters and the queue it fills would *)
(* grow without bound, and rx_buffer alone is a finite state.               *)

\* number of damaged deliveries in a run
MaxGlitch == 2

\* the most bytes a damaged delivery adds, or takes off the front of a frame
MaxGarbage == 6

\* the sequence numbers of the frames: an ordinary one and the marker value
ResyncSeqs == {7, SENTINEL}

\* a damaged delivery: a few stray bytes, or a frame that lost its first bytes
Damaged ==
    {Run(b, n) : b \in ChunkBytes, n \in 1..MaxGarbage}
        \cup {DropFront(FrameOf(seq, fill), n) :
                 seq \in ResyncSeqs, fill \in ChunkBytes, n \in 1..MaxGarbage}

\* the loop of notification_handler on rx_buffer extended by data; mk tells
\* for each byte of data whether it is byte 0 of a frame
IngestOnly(data, mk) ==
    LET mks  == marks \o mk
        r    == Ingest(Extend(rx_buffer, data))
        keep == Len(r.buf)
    IN  /\ rx_buffer' = r.buf
        /\ marks' = SubSeq(mks, Len(mks) - keep + 1, Len(mks))
        /\ cut' = IF r.out = <<>> THEN "none"
                  ELSE IF \A i \in 1..Len(r.out) : mks[r.out[i].at + 1]
                       THEN "aligned" ELSE "misaligned"
        /\ UNCHANGED <<last_seq, expected, received, start_t, data_queue,
                       lbl_status, stats_calls, clock, counters, syncHist,
                       ui, pending, rest>>

\* the device sends one whole frame
SendFrame(seq, fill) ==
    /\ IngestOnly(FrameOf(seq, fill),
                  <<TRUE>> \o [i \in 1..(FRAME_SIZE - 1) |-> FALSE])
    /\ last_clean' = (seq # SENTINEL /\ fill # SENTINEL)
    /\ UNCHANGED nglitch

\* the transport delivers damaged bytes
Glitch(data) ==
    /\ nglitch < MaxGlitch
    /\ IngestOnly(data, [i \in 1..Len(data) |-> FALSE])
    /\ last_clean' = FALSE
    /\ nglitch' = nglitch + 1

SendAny == \E seq \in ResyncSeqs, fill \in ChunkBytes : SendFrame(seq, fill)

NextResync ==
    \/ SendAny
    \/ \E data \in Damaged : Glitch(data)

\* the transport keeps delivering frames
SpecResync == Init /\ [][NextResync]_vars /\ WF_vars(SendAny)

----------------------------------------------------------------------------
(* SpecLife: the window from its start, with the connect button clicked    *)
(* and the workers running, every await ending in each of its ways.        *)
(* SpecSession: a connected worker with frames arriving in halves, commands *)
(* sent, and the button clicked to disconnect and to connect again.        *)
(* SpecStop: the same without the commands.                                *)
(* SpecCmd: a connected worker with frames arriving in halves and commands *)
(* sent as time passes.                                                    *)

\* number of workers built in a run
MaxWorkers == 2

\* number of workers built in a run of SpecSession, the first one included
MaxSessions == 2

\* number of notifications in a run
MaxLifeCalls == 2

\* number of command button presses in a run
MaxLifeCmds == 1

\* the state MainWindow.__init__ leaves: no worker, the buttons disabled
InitLife ==
    /\ rx_buffer = FreshFields.rx_buffer
    /\ last_seq = FreshFields.last_seq
    /\ expected = FreshFields.expected
    /\ received = FreshFields.received
    /\ start_t = FreshFields.start_t
    /\ data_queue = <<>>
    /\ lbl_status = "not connected"
    /\ stats_calls = <<>>
    /\ clock = 1
    /\ stream = <<>>
    /\ emitted = <<>>
    /\ dropped = 0
    /\ nobs = 0
    /\ ncalls = 0
    /\ ncmds = 0
    /\ gapfree = TRUE
    /\ marks = <<>>
    /\ cut = "none"
    /\ last_clean = FALSE
    /\ nglitch = 0
    /\ controls = FALSE
    /\ btn_connect = "connect"
    /\ plot_buffer = <<>>
    /\ plot_error = FALSE
    /\ workers = <<>>
    /\ parked = <<>>
    /\ ble_worker = 0
    /\ pending = <<>>
    /\ writes = <<>>
    /\ pushed = <<>>
    /\ drained = <<>>
    /\ stale = 0
    /\ mixed = FALSE

\* the two halves of a frame
Halves ==
    {Take(FrameOf(7, 0), FRAME_SIZE \div 2),
     DropFront(FrameOf(7, 0), FRAME_SIZE \div 2)}

\* the history variables the steps of the workers and of the transport leave
LifeQuiet == UNCHANGED <<counters, syncHist, resyncHist, sinkHist, sessHist>>

\* a click on btn_connect, with at most limit workers built
ClickWithin(limit) ==
    /\ \/ ble_worker # 0 /\ workers[ble_worker].is_running
       \/ Len(workers) < limit
    /\ ToggleConnection
    /\ ToggleFrame
    /\ stale' = IF ble_worker' = ble_worker THEN stale ELSE 0
    /\ UNCHANGED <<mixed, writes, counters, syncHist, resyncHist, sinkHist>>

\* history of the bytes that a 'b' command found in rx_buffer
StaleHistory(data) ==
    LET r    == Ingest(Extend(rx_buffer, data))
        used == Len(rx_buffer) + Len(data) - Len(r.buf)
    IN  /\ stale' = IF stale > used THEN stale - used ELSE 0
        /\ mixed' = (mixed \/ \E i \in 1..Len(r.out) : r.out[i].at < stale)

Feed(w, data) ==
    /\ ncalls < MaxLifeCalls
    /\ WorkerNotified(w, data)
    /\ WorkerPushHistory(w, data)
    /\ ncalls' = ncalls + 1
    /\ IF w = ble_worker THEN StaleHistory(data) ELSE UNCHANGED <<stale, mixed>>
    /\ UNCHANGED <<nobs, ncmds, gapfree, syncHist, resyncHist, writes>>

PressLife(char) ==
    /\ controls
    /\ ble_worker # 0
    /\ ncmds < MaxLifeCmds
    /\ SendCmd(char)
    /\ CmdHistory(char)
    /\ stale' = IF char = "b" THEN Len(rx_buffer) ELSE stale
    /\ UNCHANGED <<plot, life, sinkHist, mixed, writes, syncHist, resyncHist>>

Written(outcome) ==
    /\ SendCommand(outcome)
    /\ UNCHANGED <<counters, syncHist, resyncHist, sinkHist, stale, mixed>>

Ids == 1..MaxWorkers

Started(w) == w <= Len(workers) /\ Start(w) /\ LifeQuiet

Scanned(w) ==
    /\ w <= Len(workers)
    /\ \E outcome \in {"found", "none", "raised"} : ScanDone(w, outcome)
    /\ LifeQuiet

Connected(w) ==
    /\ w <= Len(workers)
    /\ \E ok \in BOOLEAN : ConnectDone(w, ok)
    /\ LifeQuiet

Subscribed(w) ==
    /\ w <= Len(workers)
    /\ \E ok \in BOOLEAN : SubscribeDone(w, ok)
    /\ LifeQuiet

Woken(w) == w <= Len(workers) /\ Wake(w) /\ LifeQuiet

Closed(w) ==
    /\ w <= Len(workers)
    /\ \E ok \in BOOLEAN : CloseDone(w, ok)
    /\ LifeQuiet

Dropped(w) == w <= Len(workers) /\ LinkDrop(w) /\ LifeQuiet

\* one step of run() of worker w
RunStep(w) ==
    \/ Started(w)
    \/ Scanned(w)
    \/ Connected(w)
    \/ Subscribed(w)
    \/ Woken(w)
    \/ Closed(w)

Click == ClickWithin(MaxWorkers)

Fed(w) == w <= Len(workers) /\ \E data \in Halves : Feed(w, data)

NextLife ==
    \/ Click
    \/ \E w \in Ids : RunStep(w)
    \/ \E w \in Ids : Dropped(w)

\* the event loop runs every task that is ready, and every await of run()
\* returns or raises
SpecLife == InitLife /\ [][NextLife]_vars /\ \A w \in Ids : WF_vars(RunStep(w))

\* the steps of run() when the device is found and the client connects
Reconnect == ClickWithin(MaxSessions)

Found(w) == w <= Len(workers) /\ ScanDone(w, "found") /\ LifeQuiet

Linked(w) == w <= Len(workers) /\ ConnectDone(w, TRUE) /\ LifeQuiet

Listening(w) == w <= Len(workers) /\ SubscribeDone(w, TRUE) /\ LifeQuiet

SessionStep(w) ==
    \/ Started(w)
    \/ Found(w)
    \/ Linked(w)
    \/ Listening(w)
    \/ Woken(w)
    \/ Closed(w)

Sessions == 1..MaxSessions

NextSession ==
    \/ Reconnect
    \/ \E w \in Sessions : SessionStep(w)
    \/ \E w \in Sessions : Fed(w)
    \/ \E char \in Commands : PressLife(char)
    \/ \E outcome \in {"written", "raised", "refused"} : Written(outcome)

SpecSession ==
    Init /\ [][NextSession]_vars /\ \A w \in Sessions : WF_vars(SessionStep(w))

NextStop ==
    \/ Reconnect
    \/ \E w \in Sessions : SessionStep(w)
    \/ \E w \in Sessions : Fed(w)

SpecStop ==
    Init /\ [][NextStop]_vars /\ \A w \in Sessions : WF_vars(SessionStep(w))

NextCmd ==
    \/ Fed(1)
    \/ Tick
    \/ \E char \in Commands : PressLife(char)
    \/ \E outcome \in {"written", "raised", "refused"} : Written(outcome)

SpecCmd == Init /\ [][NextCmd]_vars

----------------------------------------------------------------------------
(* SpecSink: numbered frames arriving in bursts, faster than the timer     *)
(* drains them, until data_queue has overflowed                            *)

\* number of notifications in a run: data_queue overflows after a drain
MaxBursts == 52

\* number of frames a notification brings
BurstFrames == 25

\* the timer stalls within this many notifications
StallBy == 2

\* frame number n of the device: its number is the first sample of set A,
\* and, with the sign bit set, the first sample of set B
SinkFrame(n) ==
    <<SENTINEL, n % 256>>
        \o <<0, (n \div 256) % 256, n % 256>> \o Run(0, 21)
        \o <<128, (n \div 256) % 256, n % 256>> \o Run(0, 21)
        \o <<0, 0>>

\* the frames first .. first + BurstFrames - 1, back to back
BurstOf(first) ==
    LET frames == [k \in 1..BurstFrames |-> SinkFrame(first + k - 1)]
    IN  [j \in 1..(FRAME_SIZE * BurstFrames) |->
            frames[((j - 1) \div FRAME_SIZE) + 1][((j - 1) % FRAME_SIZE) + 1]]

Burst ==
    /\ ncalls < MaxBursts
    /\ LET data == BurstOf(nobs)
       IN  /\ NotificationHandler(data)
           /\ CallHistory(data)
           /\ PushHistory(data)
    /\ UNCHANGED <<syncHist, resyncHist, plot, life, sessHist>>

\* the timer fires
TimerFires ==
    /\ UpdatePlot
    /\ DrainHistory
    /\ UNCHANGED <<counters, syncHist, resyncHist, life, sessHist>>

\* the timer fires freely during the first bursts, and after them only when
\* it has stalled until the queue is full
Drain ==
    /\ \/ ncalls <= StallBy
       \/ Len(data_queue) = QUEUE_MAXLEN
    /\ TimerFires

NextSink ==
    \/ Burst
    \/ Drain

SpecSink == Init /\ [][NextSink]_vars

----------------------------------------------------------------------------
(* SpecDecode: frames with samples at the ends of the 24-bit range in every *)
(* channel, a stray byte among them, and the timer draining the queue      *)

\* number of frames in a run
MaxDecFrames == 2

\* number of stray bytes in a run
MaxJunk == 1

\* three-byte samples: 0, 1, 0x7FFFFF, 0x800000, 0xFFFFFF, 0x800001,
\* 0xA0A0A0 and 0x008000
Triples ==
    <<<<0, 0, 0>>, <<0, 0, 1>>, <<127, 255, 255>>, <<128, 0, 0>>,
      <<255, 255, 255>>, <<128, 0, 1>>, <<160, 160, 160>>, <<0, 128, 0>>>>

\* the 24 bytes of a set whose channel i holds sample number i + k
SetOf(k) ==
    [j \in 1..24 |-> Triples[(((j - 1) \div 3 + k) % 8) + 1][((j - 1) % 3) + 1]]

\* the payloads: all samples 0; sample 1 in channel 0 of set A; and the
\* eight rotations of the samples above, set B three channels ahead of set A
Payloads ==
    {Run(0, 48) \o <<0, 0>>, <<0, 0, 1>> \o Run(0, 45) \o <<0, 0>>}
        \cup {SetOf(k) \o SetOf(k + 3) \o <<255, 255>> : k \in 0..7}

\* the device numbers its frames from 5
DecFrame(n, payload) == <<SENTINEL, (n + 5) % 256>> \o payload

\* what a notification of SpecDecode records
DecodeHistory(data) ==
    /\ CallHistory(data)
    /\ SyncHistory(data)
    /\ PushHistory(data)
    /\ UNCHANGED <<resyncHist, plot, life, sessHist>>

Sample(payload) ==
    /\ nobs < MaxDecFrames
    /\ Len(rx_buffer) < FRAME_SIZE - 1
    /\ NotificationHandler(DecFrame(nobs, payload))
    /\ DecodeHistory(DecFrame(nobs, payload))

Junk ==
    /\ dropped + Len(rx_buffer) < MaxJunk
    /\ NotificationHandler(<<0>>)
    /\ DecodeHistory(<<0>>)

NextDecode ==
    \/ \E payload \in Payloads : Sample(payload)
    \/ Junk
    \/ TimerFires

SpecDecode == Init /\ [][NextDecode]_vars

----------------------------------------------------------------------------
(* Claims on the synchroniser, checked under Spec *)

\* the packets of a list of cut records
Packets(out) == [i \in 1..Len(out) |-> out[i].packet]

\* C1: chunk-boundary independence.  However the bytes received so far were
\* split into notifications, the packets handed to process_packet, in order,
\* and the bytes left in rx_buffer are those of one notification_handler call
\* on an empty buffer with all the bytes at once.
C1_ChunkIndependence ==
    LET whole == Ingest(Extend(<<>>, stream))
    IN  /\ Packets(emitted) = Packets(whole.out)
        /\ \A i \in 1..Len(emitted) : emitted[i].pos = whole.out[i].at
        /\ rx_buffer = whole.buf

\* C1 witness: a packet whose bytes arrived in several notifications was cut
\* after a byte was discarded, and a partial frame is waiting.
C1_Witness ==
    /\ ncalls >= 3
    /\ Len(emitted) = 1
    /\ emitted[1].pos = 1
    /\ Len(rx_buffer) = 1

\* C3: every packet handed to process_packet is 52 consecutive bytes of the
\* accumulator (of the received stream, at the place the synchroniser had
\* reached), starts with the marker 0xA0, and was cut while the accumulator
\* held at least 52 bytes.
C3_EmittedFrames ==
    \A i \in 1..Len(emitted) :
        LET e == emitted[i]
        IN  /\ Len(e.packet) = FRAME_SIZE
            /\ e.packet[1] = SENTINEL
            /\ e.avail >= FRAME_SIZE
            /\ e.pos + FRAME_SIZE <= Len(stream)
            /\ e.packet = SubSeq(stream, e.pos + 1, e.pos + FRAME_SIZE)

\* C3 witness: two packets were cut, the first after discarded bytes, the
\* second from a buffer holding more than one frame.
C3_Witness ==
    /\ Len(emitted) = 2
    /\ emitted[1].pos > 0
    /\ emitted[1].avail > FRAME_SIZE

\* C4: once notification_handler has returned, rx_buffer holds fewer than 52
\* bytes.
C4_AtRestShort == Len(rx_buffer) < FRAME_SIZE

\* C4 witness: more than two frames' worth of bytes has arrived and 51 bytes
\* stay buffered.
C4_Witness ==
    /\ Len(stream) >= 2 * FRAME_SIZE
    /\ Len(emitted) >= 1
    /\ Len(rx_buffer) = FRAME_SIZE - 1

\* the stream so far is k bytes other than 0xA0 followed by exactly one run
\* of 52 bytes that starts with 0xA0
GarbageThenFrame(k) ==
    /\ k >= 0
    /\ Len(stream) = k + FRAME_SIZE
    /\ \A i \in 1..k : stream[i] # SENTINEL
    /\ stream[k + 1] = SENTINEL

\* C5: when the bytes received since the empty accumulator are k garbage
\* bytes, none 0xA0, followed by one 52-byte run starting with 0xA0, exactly
\* the k garbage bytes were discarded, exactly one packet was cut, it is that
\* run, and the accumulator is empty.
C5_GarbagePrefix ==
    \A k \in 0..Len(stream) :
        GarbageThenFrame(k) =>
            /\ dropped = k
            /\ Len(emitted) = 1
            /\ emitted[1].packet = SubSeq(stream, k + 1, k + FRAME_SIZE)
            /\ rx_buffer = <<>>

\* C5 witness: three garbage bytes, then the frame, in four notifications.
C5_Witness ==
    /\ GarbageThenFrame(3)
    /\ ncalls = 4
    /\ dropped = 3

----------------------------------------------------------------------------
(* Claims on the sequence tracker and the stats tick, checked under        *)
(* SpecStats, where every step of Deliver is one observation               *)

\* C6: on every observation after the first, expected grows by
\* (seq - last_seq) mod 256, a value in 0..255, received grows by 1 and
\* last_seq becomes seq; the successor of last_seq, 0 after 255 included,
\* adds 1 to expected; and after a gap-free run of n+1 packets
\* expected = received = n.
C6_SeqTracking ==
    /\ [](gapfree /\ nobs >= 1 => expected = nobs - 1 /\ received = nobs - 1)
    /\ [][\A seq \in NextSeqs :
            (Deliver(seq) /\ last_seq # NO_SEQ) =>
                /\ \E q \in {0, 1} :
                      LET diff == seq - last_seq + 256 * q
                      IN  diff \in 0..255 /\ expected' = expected + diff
                /\ received' = received + 1
                /\ last_seq' = seq
                /\ (last_seq = 255 /\ seq = 0) => expected' = expected + 1
         ]_vars

\* C6 witness: the packets 254, 255, 0, 1 have been observed.
C6_Witness ==
    /\ gapfree
    /\ nobs = 4
    /\ last_seq = 1
    /\ expected = 3
    /\ received = 3

\* C7: the first observation records seq as last_seq, leaves expected and
\* received at 0 and makes no stats_cb call.
C7_FirstObservationSilent ==
    [][\A seq \in NextSeqs :
          (Deliver(seq) /\ last_seq = NO_SEQ) =>
              /\ last_seq' = seq
              /\ expected' = 0
              /\ received' = 0
              /\ stats_calls' = stats_calls
      ]_vars

\* C8: the 'b' command zeroes expected and received and clears last_seq.
C8_RestartResets ==
    [][Press("b") =>
          /\ expected' = 0
          /\ received' = 0
          /\ last_seq' = NO_SEQ
      ]_vars

\* C9: an observation after the first makes a stats_cb call exactly when it
\* brings received to a positive multiple of 50, and then makes one call.
C9_TickCadence ==
    [][\A seq \in NextSeqs :
          (Deliver(seq) /\ last_seq # NO_SEQ) =>
              LET ticked == /\ Len(stats_calls') = Len(stats_calls) + 1
                            /\ SubSeq(stats_calls', 1, Len(stats_calls))
                                  = stats_calls
                  silent == stats_calls' = stats_calls
              IN  /\ ticked \/ silent
                  /\ ticked <=> \E k \in 1..MaxFrames : received' = 50 * k
      ]_vars

\* C9 witness: the tick of the 50th observation after the first was made,
\* after the one of the first packet.
C9_Witness ==
    /\ Len(stats_calls) = 2
    /\ stats_calls[2].received = 50
    /\ received = 50

\* C10: every stats_cb call reports 100 * (expected - received) / expected
\* when expected > 0 and 0 when expected = 0, never a quotient by 0.
C10_LossValue ==
    \A i \in 1..Len(stats_calls) :
        LET c == stats_calls[i]
        IN  /\ c.loss.den # 0
            /\ c.expected > 0 =>
                  c.loss.num * c.expected
                      = 100 * (c.expected - c.received) * c.loss.den
            /\ c.expected = 0 => c.loss.num = 0

\* C10 witness: a tick with expected = 0 was followed by the tick of
\* expected = 100, received = 50, which reported 50 percent.
C10_Witness ==
    /\ Len(stats_calls) = 2
    /\ stats_calls[1].expected = 0
    /\ stats_calls[2].expected = 100
    /\ stats_calls[2].received = 50
    /\ stats_calls[2].loss.num = 50 * stats_calls[2].loss.den

\* C18: received never exceeds expected, and every stats_cb call reports a
\* loss between 0 and 100.
C18_ReceivedWithinExpected ==
    /\ received <= expected
    /\ \A i \in 1..Len(stats_calls) :
          LET c == stats_calls[i]
          IN  /\ c.received <= c.expected
              /\ 0 <= c.loss.num
              /\ c.loss.num <= 100 * c.loss.den

----------------------------------------------------------------------------
(* Claim on resynchronisation, checked under SpecResync *)

----------------------------------------------------------------------------
(* Claims on sessions, commands and cancellation: C11 is checked under    *)
(* SpecSession, C12 under SpecCmd and C16 under SpecStop                   *)

\* C11: at every session boundary, a new worker after a click or a 'b'
\* command on the connected one, rx_buffer is empty and last_seq, expected
\* and received have their initial values, and no packet is ever cut from
\* bytes that arrived before the boundary together with bytes after it.
C11_SessionBoundaryReset ==
    /\ [](~mixed)
    /\ [][(ble_worker' # ble_worker \/ PressLife("b")) =>
             /\ rx_buffer' = <<>>
             /\ last_seq' = NO_SEQ
             /\ expected' = 0
             /\ received' = 0
         ]_vars

\* C12: the 's' and 'd' commands leave rx_buffer, last_seq, expected,
\* received and data_queue as they are, the 'b' command leaves rx_buffer and
\* data_queue as they are, and so does the write of send_command, whether it
\* goes out, raises or is refused.
C12_CommandsKeepDecodeState ==
    [][/\ \A char \in Commands :
             PressLife(char) =>
                 /\ rx_buffer' = rx_buffer
                 /\ data_queue' = data_queue
                 /\ parked' = parked
                 /\ char # "b" =>
                       /\ last_seq' = last_seq
                       /\ expected' = expected
                       /\ received' = received
       /\ \A outcome \in {"written", "raised", "refused"} :
             Written(outcome) =>
                 /\ rx_buffer' = rx_buffer
                 /\ data_queue' = data_queue
                 /\ parked' = parked
                 /\ last_seq' = last_seq
                 /\ expected' = expected
                 /\ received' = received
      ]_vars

\* C12 witness: with half a frame buffered, the 'd' command was sent and its
\* write raised.
C12_Witness ==
    /\ Len(writes) = 1
    /\ writes[1].char = "d"
    /\ writes[1].outcome = "raised"
    /\ lbl_status = "sleep"
    /\ Len(rx_buffer) = FRAME_SIZE \div 2
    /\ last_seq = NO_SEQ

\* stop() was called on worker w
StopCalled(w) == IF w <= Len(workers) THEN workers[w].stop_called ELSE FALSE

\* run() of worker w has returned
Returned(w) == IF w <= Len(workers) THEN workers[w].pc = "done" ELSE FALSE

\* C16: a worker on which stop() was called finds is_running cleared the
\* next time its sleep ends, does not sleep again, and its run() returns,
\* with no notification needed; and the steps that end run() leave rx_buffer
\* and data_queue as they are.
C16_StopTerminates ==
    /\ \A w \in Sessions : [](StopCalled(w) => <>Returned(w))
    /\ [][\A w \in Sessions :
             /\ (Woken(w) /\ ~workers[w].is_running) =>
                   workers'[w].pc = "closing"
             /\ ((Woken(w) \/ Closed(w)) /\ StopCalled(w)) =>
                   /\ rx_buffer' = rx_buffer
                   /\ parked' = parked
                   /\ data_queue' = data_queue
         ]_vars

\* C16 witness: stop() was called on the first worker while it held half a
\* frame, and its run() has returned with the half frame still buffered.
C16_Witness ==
    /\ workers[1].stop_called
    /\ workers[1].pc = "done"
    /\ ~workers[1].is_running
    /\ ble_worker = 1
    /\ Len(rx_buffer) = FRAME_SIZE \div 2
    /\ data_queue = <<>>

----------------------------------------------------------------------------
(* Claim on the queue, checked under SpecSink *)

\* C13: data_queue never holds more than 2500 vectors, and it holds the last
\* min(2500, n) of the n vectors appended since the last drain, in the order
\* they were appended.
C13_SinkKeepsNewest ==
    LET n    == Len(pushed)
        kept == Min(QUEUE_MAXLEN, n)
    IN  /\ Len(data_queue) <= QUEUE_MAXLEN
        /\ data_queue = SubSeq(pushed, n - kept + 1, n)

\* C13 witness: after a drain, more than 2500 + 5 vectors were appended and
\* the queue is full.
C13_Witness ==
    /\ drained # <<>>
    /\ Len(pushed) >= QUEUE_MAXLEN + 5
    /\ Len(data_queue) = QUEUE_MAXLEN

----------------------------------------------------------------------------
(* Claims on the decoder and the hand-off, checked under SpecDecode *)

\* every vector the timer took, then those still queued
Consumed == drained \o data_queue

\* column c of plot_buffer
Column(pb, c) == IF c \in DOMAIN pb THEN pb[c] ELSE ZeroColumn

\* C14: each run of update_plot takes every queued vector, in order, into
\* the last columns of plot_buffer and leaves data_queue empty, leaving all
\* as it is when nothing is queued; every vector taken or queued has eight
\* samples; and while data_queue has not overflowed, the vectors taken so far
\* followed by those queued are the vectors of the packets cut, in order.
C14_HandOff ==
    /\ [](/\ \A k \in 1..Len(Consumed) : DOMAIN Consumed[k] = 1..8
          /\ Len(Vectors(emitted)) <= QUEUE_MAXLEN =>
                Consumed = Vectors(emitted))
    /\ [][TimerFires =>
             LET n == Len(data_queue)
             IN  /\ data_queue' = <<>>
                 /\ n = 0 => plot_buffer' = plot_buffer
                 /\ \A j \in 1..n :
                       Column(plot_buffer', PLOT_WIDTH - n + j) = data_queue[j]
         ]_vars

\* C14 witness: the timer took the two vectors of a first frame and then,
\* separately, the two of a second frame.
C14_Witness ==
    /\ Len(drained) = 4
    /\ data_queue = <<>>
    /\ Column(plot_buffer, PLOT_WIDTH - 3) = drained[1]
    /\ Column(plot_buffer, PLOT_WIDTH) = drained[4]
    /\ drained[1] # drained[4]
    /\ drained[4] # ZeroColumn

\* the unsigned 24-bit value of three bytes, most significant first
Unsigned24(b0, b1, b2) == b0 * 65536 + b1 * 256 + b2

\* the two's-complement value of an unsigned 24-bit value
Signed24(u) == IF u >= 8388608 THEN u - 16777216 ELSE u

\* the sample of channel i of the set at offset off of the n-th packet cut
SampleOf(n, off, i) ==
    Consumed[2 * (n - 1) + (IF off = 2 THEN 1 ELSE 2)][i + 1]

\* C15: for every packet, each of the offsets 2 and 26 and each channel i in
\* 0..7, the code is the two's-complement value of the three bytes at
\* offset + 3*i, it lies in -8388608..8388607, 0x800000 gives -8388608 and
\* 0x7FFFFF gives 8388607, and the sample is the code times SCALE_FACTOR.
C15_SignedSamples ==
    \A n \in 1..Len(emitted) : \A off \in {2, 26} : \A i \in 0..7 :
        LET p == emitted[n].packet
            u == Unsigned24(p[off + 3 * i + 1], p[off + 3 * i + 2],
                            p[off + 3 * i + 3])
            v == SampleOf(n, off, i)
        IN  /\ v.code = Signed24(u)
            /\ v.code \in -8388608..8388607
            /\ u = 8388608 => v.code = -8388608
            /\ u = 8388607 => v.code = 8388607
            /\ v.scale = SCALE_FACTOR

\* C15 witness: a frame with 0x800000 in channel 0 of set A and 0x7FFFFF in
\* channel 7 was decoded.
C15_Witness ==
    /\ Len(emitted) >= 1
    /\ Len(Consumed) >= 2
    /\ Consumed[1][1].code = -8388608
    /\ Consumed[1][8].code = 8388607

\* the eight samples that bytes number from..from+23 of packet p, counted
\* from 1, stand for
SetValues(p, from) ==
    [c \in 1..8 |->
        [code  |-> Signed24(Unsigned24(p[from + 3 * c - 3], p[from + 3 * c - 2],
                                       p[from + 3 * c - 1])),
         scale |-> SCALE_FACTOR]]

\* C17: the packets cut are the frames of the stream in stream order; the
\* tracker has observed each of them once; and each has put two vectors into
\* the queue, the one of bytes 2..25 before the one of bytes 26..49, in the
\* order of the packets.
C17_PipelineOrder ==
    /\ \A n \in 1..Len(emitted) :
          /\ emitted[n].packet
                = SubSeq(stream, emitted[n].pos + 1, emitted[n].pos + FRAME_SIZE)
          /\ n > 1 => emitted[n - 1].pos + FRAME_SIZE <= emitted[n].pos
          /\ Consumed[2 * n - 1] = SetValues(emitted[n].packet, 3)
          /\ Consumed[2 * n] = SetValues(emitted[n].packet, 27)
    /\ Len(Consumed) = 2 * Len(emitted)
    /\ nobs = Len(emitted)
    /\ emitted # <<>> =>
          /\ received = Len(emitted) - 1
          /\ last_seq = emitted[Len(emitted)].packet[2]

\* C17 witness: a stray byte 0x00, then frame 5 with all samples 0, then
\* frame 6 with sample 1 in channel 0 of set A: two packets, four vectors.
C17_Witness ==
    /\ stream = <<0>> \o DecFrame(0, Run(0, 50))
                      \o DecFrame(1, <<0, 0, 1>> \o Run(0, 47))
    /\ Len(emitted) = 2
    /\ dropped = 1
    /\ last_seq = 6
    /\ Len(Consumed) = 4
    /\ Consumed[3] = [c \in 1..8 |-> Scaled(IF c = 1 THEN 1 ELSE 0)]
    /\ Consumed[4] = ZeroColumn

----------------------------------------------------------------------------
(* Claims on the worker life cycle, checked under SpecLife *)

\* the workers whose run() has started and not yet finished
ActiveWorkers == {w \in 1..Len(workers) : Active(w)}

\* C19: for any sequence of clicks on the connect button at most one worker
\* is active (run() started and not finished) at any time.
C19_OneActiveWorker == Cardinality(ActiveWorkers) <= 1

\* the statuses of worker w end with its only "disconnected"
EndsDisconnected(w) ==
    LET s == workers[w].statuses
    IN  /\ Len(s) > 0
        /\ s[Len(s)] = "disconnected"
        /\ \A i \in 1..(Len(s) - 1) : s[i] # "disconnected"

\* C20: a run() that has finished, on any path, has left is_running False
\* and client None, and "disconnected" is the last status of that worker:
\* nothing is reported by the worker after it.
C20_TerminalStatus ==
    /\ [](\A w \in 1..Len(workers) :
             workers[w].pc = "done" =>
                /\ ~workers[w].is_running
                /\ ~workers[w].client
                /\ EndsDisconnected(w))
    /\ [][\A w \in 1..Len(workers) :
             workers[w].pc = "done" =>
                /\ workers'[w].pc = "done"
                /\ workers'[w].statuses = workers[w].statuses]_vars

\* one run() has ended without a device, another after stop() on a
\* connected worker
C20_Witness ==
    /\ Len(workers) = 2
    /\ workers[1].pc = "done"
    /\ workers[1].statuses = <<"scanning", "not found", "disconnected">>
    /\ workers[2].pc = "done"
    /\ workers[2].stop_called
    /\ workers[2].statuses =
           <<"scanning", "connecting", "connected", "disconnected">>
    /\ ~workers[2].is_running
    /\ ~workers[2].client

============================================================================
